---------------------------- MODULE Spec2Model ----------------------------
(***************************************************************************)
(* HealthVis: the tone generator of healthvis-mobile/generate_tones.py     *)
(* (generate_tone, main and the __main__ guard) and the /upload-data       *)
(* handler of backend/api/chat.py.                                         *)
(*                                                                         *)
(* Numbers.  Durations are held in milliseconds (0.2 s is 200), so that    *)
(* sample_rate * duration is the integer product divided by MsPerSecond.   *)
(* Floating point values are modelled by exact rationals <<n, d>>, d > 0,  *)
(* in lowest terms; np.sin is modelled by Bhaskara's rational              *)
(* approximation, which is exact at 0, 1/12, 1/4, 5/12 and 1/2 of a cycle  *)
(* and stays inside [-1, 1].  Sequences are 1-based: index i of the model  *)
(* is index i-1 of the numpy array.                                        *)
(***************************************************************************)
EXTENDS Integers, Sequences, FiniteSets, TLC

VARIABLES
    \* generate_tone: arguments and locals
    frequency, duration, sample_rate, fade_duration,
    tpc, num_samples, t, audio, fade_samples, fade_in, fade_out, pcm, texc,
    \* the script: __main__, main
    bpc, numpy_ok, scipy_ok, dir_exists, disk, stdout, idx, tone, bexc,
    gen_count, write_count, failed_at,
    \* the loop body run once per entry in any order
    wpc, wtone,
    \* POST /upload-data
    upc, filename, content, client_ok, provider, data, uexc, status_code,
    detail, analyze_calls, suggest_calls, requests

toneVars == <<frequency, duration, sample_rate, fade_duration,
              tpc, num_samples, t, audio, fade_samples, fade_in, fade_out,
              pcm, texc>>
batchVars == <<bpc, numpy_ok, scipy_ok, dir_exists, disk, stdout, idx, tone,
               bexc, gen_count, write_count, failed_at>>
parVars == <<wpc, wtone>>
uploadVars == <<upc, filename, content, client_ok, provider, data, uexc,
                status_code, detail, analyze_calls, suggest_calls, requests>>
vars == <<toneVars, batchVars, parVars, uploadVars>>
notTone == <<batchVars, parVars, uploadVars>>
notBatch == <<toneVars, parVars, uploadVars>>

---------------------------------------------------------------------------
(* Bounds of the model *)

MaxFrequency == 3
MaxRate == 8
MaxDurationSteps == 4
MaxFadeSteps == 3
MaxRequests == 2

(* Program constants *)

MsPerSecond == 1000
SAMPLE_RATE == 44100
DURATION == 200
FADE_DURATION == 10
\* The scale of the full 16-bit range, one more than the code's.
PcmScaleOffByOne == 32767 + 1

PcmScale == 32767
BytesPerSample == 2
WavHeaderBytes == 44

---------------------------------------------------------------------------
(* Arithmetic *)

Abs(x) == IF x < 0 THEN -x ELSE x

Min(a, b) == IF a < b THEN a ELSE b

\* int(n / d) for d > 0: Python's int() of a float drops the fraction,
\* towards zero.
Trunc(n, d) == IF n >= 0 THEN n \div d ELSE -((-n) \div d)

Floor(n, d) == n \div d

RECURSIVE GCD(_, _)
GCD(a, b) == IF b = 0 THEN a ELSE GCD(b, a % b)

\* The rational n/d, d > 0, in lowest terms.
Rat(n, d) == LET g == GCD(Abs(n), d) IN <<n \div g, d \div g>>

RMul(a, b) == Rat(a[1] * b[1], a[2] * b[2])

RAdd(a, b) == Rat(a[1] * b[2] + b[1] * a[2], a[2] * b[2])

RSub(a, b) == Rat(a[1] * b[2] - b[1] * a[2], a[2] * b[2])

\* a / k for an integer k > 0
RDivInt(a, k) == Rat(a[1], a[2] * k)

REq(a, b) == a[1] * b[2] = b[1] * a[2]

Zero == Rat(0, 1)
One == Rat(1, 1)

---------------------------------------------------------------------------
(* numpy *)

\* int(sample_rate * seconds), the duration given in milliseconds.
IntProduct(rate, ms) == Trunc(rate * ms, MsPerSecond)

\* np.linspace(start, stop, num, endpoint) for num >= 0:
\* y = arange(num) * (stop - start) / div + start, div = num - 1 with the
\* endpoint and num without; a single point with the endpoint is start.
Linspace(start, stop, num, endpoint) ==
    LET div == IF endpoint THEN num - 1 ELSE num IN
    [i \in 1..num |->
        IF div = 0 THEN start
        ELSE RAdd(start, RDivInt(RMul(Rat(i - 1, 1), RSub(stop, start)), div))]

\* np.sin(2 * np.pi * x) for a rational number x of cycles: the half cycle
\* the phase falls in gives the sign, and with u = n/m the position inside
\* it, sin(pi u) is 16 n (m - n) / (5 m^2 - 4 n (m - n)).
Sin2Pi(x) ==
    LET q == x[2]
        p == x[1] % q
        h == 2 * p
        neg == h >= q
        u == Rat(IF neg THEN h - q ELSE h, q)
        n == u[1]
        m == u[2]
        v == Rat(16 * n * (m - n), 5 * m * m - 4 * n * (m - n))
    IN IF neg THEN <<-v[1], v[2]>> ELSE v

\* A conversion that rounds down instead (towards minus infinity).
AsInt16Floor(x) ==
    (((Floor(x[1], x[2])) + 32768) % 65536) - 32768

\* x.astype(np.int16): the fraction is dropped towards zero and the result
\* is held in 16 bits.
AsInt16(x) ==
    (((Trunc(x[1], x[2])) + 32768) % 65536) - 32768

\* a[lo:hi] *= ramp is allowed when the slice and the ramp have the same
\* length or the ramp has a single point.
Broadcasts(sliceLen, rampLen) == sliceLen = rampLen \/ rampLen = 1

---------------------------------------------------------------------------
(* generate_tone(frequency, duration, sample_rate, fade_duration) *)

Durations == {250 * k : k \in -1..MaxDurationSteps}
Rates == -1..MaxRate
Fades == {125 * k : k \in 0..MaxFadeSteps}

ToneInit ==
    /\ frequency \in 1..MaxFrequency
    /\ duration \in Durations
    /\ sample_rate \in Rates
    /\ fade_duration \in Fades
    /\ tpc = "time"
    /\ num_samples = 0
    /\ t = <<>>
    /\ audio = <<>>
    /\ fade_samples = 0
    /\ fade_in = <<>>
    /\ fade_out = <<>>
    /\ pcm = <<>>
    /\ texc = "none"

\* num_samples = int(sample_rate * duration)
\* t = np.linspace(0, duration, num_samples, endpoint=False)
TimeArray ==
    /\ tpc = "time"
    /\ IntProduct(sample_rate, duration) >= 0
    /\ num_samples' = IntProduct(sample_rate, duration)
    /\ t' = Linspace(Zero, Rat(duration, MsPerSecond), num_samples', FALSE)
    /\ tpc' = "sine"
    /\ UNCHANGED <<frequency, duration, sample_rate, fade_duration, audio,
                   fade_samples, fade_in, fade_out, pcm, texc>>
    /\ UNCHANGED notTone

\* np.linspace refuses a negative number of samples.
TimeArrayRaises ==
    /\ tpc = "time"
    /\ IntProduct(sample_rate, duration) < 0
    /\ num_samples' = IntProduct(sample_rate, duration)
    /\ tpc' = "raised"
    /\ texc' = "ValueError"
    /\ UNCHANGED <<frequency, duration, sample_rate, fade_duration, t, audio,
                   fade_samples, fade_in, fade_out, pcm>>
    /\ UNCHANGED notTone

\* audio = np.sin(2 * np.pi * frequency * t)
SineOf(f, ti) == Sin2Pi(RMul(Rat(f, 1), ti))

SineWave ==
    /\ tpc = "sine"
    /\ audio' = [i \in 1..Len(t) |-> SineOf(frequency, t[i])]
    /\ tpc' = "fade"
    /\ UNCHANGED <<frequency, duration, sample_rate, fade_duration,
                   num_samples, t, fade_samples, fade_in, fade_out, pcm, texc>>
    /\ UNCHANGED notTone

\* fade_samples = int(sample_rate * fade_duration); if fade_samples > 0:
FadeSamples ==
    /\ tpc = "fade"
    /\ fade_samples' = IntProduct(sample_rate, fade_duration)
    /\ tpc' = IF fade_samples' > 0 THEN "fade_in" ELSE "convert"
    /\ UNCHANGED <<frequency, duration, sample_rate, fade_duration,
                   num_samples, t, audio, fade_in, fade_out, pcm, texc>>
    /\ UNCHANGED notTone

FadeInRamp(n) == Linspace(Zero, One, n, TRUE)

\* The ramps of linspace; the first variant of the fade-out leaves out the
\* end point, as endpoint=False would.
FadeOutRampNoEndpoint(n) == Linspace(One, Zero, n, FALSE)

FadeOutRamp(n) == Linspace(One, Zero, n, TRUE)

\* fade_in = np.linspace(0, 1, fade_samples); audio[:fade_samples] *= fade_in
FadeIn ==
    /\ tpc = "fade_in"
    /\ Broadcasts(Min(fade_samples, Len(audio)), fade_samples)
    /\ fade_in' = FadeInRamp(fade_samples)
    /\ audio' = [i \in 1..Len(audio) |->
                    IF i <= fade_samples
                    THEN RMul(audio[i], fade_in'[i])
                    ELSE audio[i]]
    /\ tpc' = "fade_out"
    /\ UNCHANGED <<frequency, duration, sample_rate, fade_duration,
                   num_samples, t, fade_samples, fade_out, pcm, texc>>
    /\ UNCHANGED notTone

\* The ramp is longer than the buffer: the in-place product cannot be
\* broadcast.
FadeInRaises ==
    /\ tpc = "fade_in"
    /\ ~Broadcasts(Min(fade_samples, Len(audio)), fade_samples)
    /\ fade_in' = FadeInRamp(fade_samples)
    /\ tpc' = "raised"
    /\ texc' = "ValueError"
    /\ UNCHANGED <<frequency, duration, sample_rate, fade_duration,
                   num_samples, t, audio, fade_samples, fade_out, pcm>>
    /\ UNCHANGED notTone

\* The first index (1-based) of audio[-fade_samples:].
TailStart(len, n) == IF n >= len THEN 1 ELSE len - n + 1

\* fade_out = np.linspace(1, 0, fade_samples)
\* audio[-fade_samples:] *= fade_out
FadeOut ==
    /\ tpc = "fade_out"
    /\ fade_out' = FadeOutRamp(fade_samples)
    /\ LET first == TailStart(Len(audio), fade_samples) IN
       audio' = [i \in 1..Len(audio) |->
                    IF i >= first
                    THEN RMul(audio[i], fade_out'[i - first + 1])
                    ELSE audio[i]]
    /\ tpc' = "convert"
    /\ UNCHANGED <<frequency, duration, sample_rate, fade_duration,
                   num_samples, t, fade_samples, fade_in, pcm, texc>>
    /\ UNCHANGED notTone

\* audio = (audio * 32767).astype(np.int16); return audio
Quantize(a) == AsInt16(RMul(a, Rat(PcmScale, 1)))

Convert ==
    /\ tpc = "convert"
    /\ pcm' = [i \in 1..Len(audio) |-> Quantize(audio[i])]
    /\ tpc' = "done"
    /\ UNCHANGED <<frequency, duration, sample_rate, fade_duration,
                   num_samples, t, audio, fade_samples, fade_in, fade_out,
                   texc>>
    /\ UNCHANGED notTone

ToneNext ==
    \/ TimeArray
    \/ TimeArrayRaises
    \/ SineWave
    \/ FadeSamples
    \/ FadeIn
    \/ FadeInRaises
    \/ FadeOut
    \/ Convert

---------------------------------------------------------------------------
(* The script: module imports, main() and the __main__ guard *)

\* TONES, in the order its items() are iterated (insertion order).
TONES ==
    << [filename |-> "tone-low.wav", frequency |-> 300],
       [filename |-> "tone-medium.wav", frequency |-> 500],
       [filename |-> "tone-high.wav", frequency |-> 800] >>

Entries == 1..Len(TONES)

FileNames == {TONES[k].filename : k \in Entries}

NoFile == [kind |-> "absent"]
StaleFile == [kind |-> "stale"]
PartialFile == [kind |-> "partial"]
NoTone == [num_samples |-> -1]

\* The buffer generate_tone returns for the script's arguments, held by
\* the arguments it was made from and its length: num_samples samples,
\* the first and last fade_samples of them faded.
ToneBuffer(f, d, rate, fade) ==
    [frequency |-> f, duration |-> d, sample_rate |-> rate,
     fade_duration |-> fade, num_samples |-> IntProduct(rate, d),
     fade_samples |-> IntProduct(rate, fade)]

\* wavfile.write(path, rate, audio): one channel of 16-bit samples after
\* the header.
WavFile(rate, buffer) ==
    [kind |-> "wav", rate |-> rate, samples |-> buffer,
     size |-> WavHeaderBytes + BytesPerSample * buffer.num_samples]

\* One path for every entry.
OutputPathFixed(name) == TONES[1].filename

\* os.path.join(OUTPUT_DIR, filename)
OutputPath(name) == name

Say(tag, value) == <<tag, value>>

Printed(tag) == \E i \in 1..Len(stdout) : stdout[i][1] = tag

\* The except clauses of the __main__ guard, in order.
HandlerOutput(exc) ==
    IF exc = "ImportError"
    THEN << Say("missing-packages", "pip install numpy scipy") >>
    ELSE << Say("error", exc), Say("traceback", exc) >>

BatchInit ==
    /\ bpc = "import"
    /\ numpy_ok \in BOOLEAN
    /\ scipy_ok \in BOOLEAN
    /\ dir_exists \in BOOLEAN
    /\ disk \in [FileNames -> {NoFile, StaleFile}]
    /\ (~dir_exists => \A n \in FileNames : disk[n] = NoFile)
    /\ stdout = <<>>
    /\ idx = 1
    /\ tone = NoTone
    /\ bexc = "none"
    /\ gen_count = [k \in Entries |-> 0]
    /\ write_count = [k \in Entries |-> 0]
    /\ failed_at = 0

\* import numpy as np; from scipy.io import wavfile; import os
\* then the module body down to the __main__ guard, which enters the try.
ImportModules ==
    /\ bpc = "import"
    /\ numpy_ok /\ scipy_ok
    /\ bpc' = "main"
    /\ UNCHANGED <<numpy_ok, scipy_ok, dir_exists, disk, stdout, idx, tone,
                   bexc, gen_count, write_count, failed_at>>
    /\ UNCHANGED notBatch

\* An import at the top of the module fails: the try of the __main__ guard
\* has not been entered, so the interpreter prints the traceback and exits.
ImportFails ==
    /\ bpc = "import"
    /\ ~(numpy_ok /\ scipy_ok)
    /\ bexc' = "ImportError"
    /\ stdout' = Append(stdout, Say("unhandled-traceback", "ImportError"))
    /\ bpc' = "crashed"
    /\ UNCHANGED <<numpy_ok, scipy_ok, dir_exists, disk, idx, tone,
                   gen_count, write_count, failed_at>>
    /\ UNCHANGED notBatch

\* os.makedirs(OUTPUT_DIR, exist_ok=True); print(...)
MakeDirs ==
    /\ bpc = "main"
    /\ dir_exists' = TRUE
    /\ stdout' = Append(stdout, Say("generating-in", "assets/audio"))
    /\ bpc' = "for"
    /\ UNCHANGED <<numpy_ok, scipy_ok, disk, idx, tone, bexc, gen_count,
                   write_count, failed_at>>
    /\ UNCHANGED notBatch

MakeDirsRaises ==
    /\ bpc = "main"
    /\ ~dir_exists
    /\ bexc' = "OSError"
    /\ bpc' = "except"
    /\ UNCHANGED <<numpy_ok, scipy_ok, dir_exists, disk, stdout, idx, tone,
                   gen_count, write_count, failed_at>>
    /\ UNCHANGED notBatch

\* for filename, frequency in TONES.items(): the next entry and its four
\* prints.
ForNext ==
    /\ bpc = "for"
    /\ idx <= Len(TONES)
    /\ stdout' = stdout \o
           << Say("generating", TONES[idx].filename),
              Say("frequency", TONES[idx].frequency),
              Say("duration-ms", DURATION),
              Say("sample-rate", SAMPLE_RATE) >>
    /\ bpc' = "generate"
    /\ UNCHANGED <<numpy_ok, scipy_ok, dir_exists, disk, idx, tone, bexc,
                   gen_count, write_count, failed_at>>
    /\ UNCHANGED notBatch

\* The loop is exhausted: the banner and the next steps, and main returns.
ForDone ==
    /\ bpc = "for"
    /\ idx > Len(TONES)
    /\ stdout' = stdout \o
           << Say("banner", "All tones generated successfully!"),
              Say("next-steps", 2) >>
    /\ bpc' = "done"
    /\ UNCHANGED <<numpy_ok, scipy_ok, dir_exists, disk, idx, tone, bexc,
                   gen_count, write_count, failed_at>>
    /\ UNCHANGED notBatch

Bump(f, k) == [f EXCEPT ![k] = @ + 1]

\* The call with duration and fade_duration exchanged.
GenerateArgsSwapped ==
    /\ bpc = "generate"
    /\ tone' = ToneBuffer(TONES[idx].frequency, FADE_DURATION, SAMPLE_RATE,
                          DURATION)
    /\ gen_count' = Bump(gen_count, idx)
    /\ bpc' = "write"
    /\ UNCHANGED <<numpy_ok, scipy_ok, dir_exists, disk, stdout, idx, bexc,
                   write_count, failed_at>>
    /\ UNCHANGED notBatch

\* audio = generate_tone(frequency, DURATION, SAMPLE_RATE, FADE_DURATION)
Generate ==
    /\ bpc = "generate"
    /\ tone' = ToneBuffer(TONES[idx].frequency, DURATION, SAMPLE_RATE,
                          FADE_DURATION)
    /\ gen_count' = Bump(gen_count, idx)
    /\ bpc' = "write"
    /\ UNCHANGED <<numpy_ok, scipy_ok, dir_exists, disk, stdout, idx, bexc,
                   write_count, failed_at>>
    /\ UNCHANGED notBatch

\* generate_tone raises (the arrays cannot be allocated).
GenerateRaises ==
    /\ bpc = "generate"
    /\ gen_count' = Bump(gen_count, idx)
    /\ bexc' = "MemoryError"
    /\ failed_at' = idx
    /\ bpc' = "except"
    /\ UNCHANGED <<numpy_ok, scipy_ok, dir_exists, disk, stdout, idx, tone,
                   write_count>>
    /\ UNCHANGED notBatch

\* wavfile.write(output_path, SAMPLE_RATE, audio)
WriteWav ==
    /\ bpc = "write"
    /\ disk' = [disk EXCEPT ![OutputPath(TONES[idx].filename)] =
                    WavFile(SAMPLE_RATE, tone)]
    /\ write_count' = Bump(write_count, idx)
    /\ bpc' = "size"
    /\ UNCHANGED <<numpy_ok, scipy_ok, dir_exists, stdout, idx, tone, bexc,
                   gen_count, failed_at>>
    /\ UNCHANGED notBatch

\* A failed write that is reported inside the loop, which goes on to the
\* next entry.
WriteWavRaisesAndContinues ==
    /\ bpc = "write"
    /\ \E c \in {disk[OutputPath(TONES[idx].filename)], PartialFile} :
           disk' = [disk EXCEPT ![OutputPath(TONES[idx].filename)] = c]
    /\ write_count' = Bump(write_count, idx)
    /\ stdout' = Append(stdout, Say("error", "OSError"))
    /\ failed_at' = idx
    /\ idx' = idx + 1
    /\ bpc' = "for"
    /\ UNCHANGED <<numpy_ok, scipy_ok, dir_exists, tone, bexc, gen_count>>
    /\ UNCHANGED notBatch

\* The write fails: the file is left as it was, or cut short.
WriteWavRaises ==
    /\ bpc = "write"
    /\ \E c \in {disk[OutputPath(TONES[idx].filename)], PartialFile} :
           disk' = [disk EXCEPT ![OutputPath(TONES[idx].filename)] = c]
    /\ write_count' = Bump(write_count, idx)
    /\ bexc' = "OSError"
    /\ failed_at' = idx
    /\ bpc' = "except"
    /\ UNCHANGED <<numpy_ok, scipy_ok, dir_exists, stdout, idx, tone,
                   gen_count>>
    /\ UNCHANGED notBatch

\* file_size = os.path.getsize(output_path); the two prints; next entry.
FileSize ==
    /\ bpc = "size"
    /\ stdout' = stdout \o
           << Say("output", OutputPath(TONES[idx].filename)),
              Say("size", disk[OutputPath(TONES[idx].filename)].size) >>
    /\ idx' = idx + 1
    /\ bpc' = "for"
    /\ UNCHANGED <<numpy_ok, scipy_ok, dir_exists, disk, tone, bexc,
                   gen_count, write_count, failed_at>>
    /\ UNCHANGED notBatch

\* except ImportError / except Exception of the __main__ guard.
ExceptHandler ==
    /\ bpc = "except"
    /\ stdout' = stdout \o HandlerOutput(bexc)
    /\ bpc' = "exited"
    /\ UNCHANGED <<numpy_ok, scipy_ok, dir_exists, disk, idx, tone, bexc,
                   gen_count, write_count, failed_at>>
    /\ UNCHANGED notBatch

BatchNext ==
    \/ ImportModules
    \/ ImportFails
    \/ MakeDirs
    \/ MakeDirsRaises
    \/ ForNext
    \/ ForDone
    \/ Generate
    \/ GenerateRaises
    \/ WriteWav
    \/ WriteWavRaises
    \/ FileSize
    \/ ExceptHandler

---------------------------------------------------------------------------
(* The loop body of main(), once per entry of TONES, the entries taken in  *)
(* any order and their steps interleaved.  Each entry k has its own        *)
(* locals (wpc[k], wtone[k]); the directory exists and disk is shared.     *)

ParInit ==
    /\ wpc = [k \in Entries |-> "start"]
    /\ wtone = [k \in Entries |-> NoTone]
    /\ bpc = "loop-bodies"
    /\ numpy_ok = TRUE
    /\ scipy_ok = TRUE
    /\ dir_exists = TRUE
    /\ disk \in [FileNames -> {NoFile, StaleFile}]
    /\ stdout = <<>>
    /\ idx = 1
    /\ tone = NoTone
    /\ bexc = "none"
    /\ gen_count = [k \in Entries |-> 0]
    /\ write_count = [k \in Entries |-> 0]
    /\ failed_at = 0

parFrame == <<bpc, numpy_ok, scipy_ok, dir_exists, idx, tone, bexc,
              failed_at, toneVars, uploadVars>>

ParHeader(k) ==
    /\ wpc[k] = "start"
    /\ stdout' = Append(stdout, Say("generating", TONES[k].filename))
    /\ wpc' = [wpc EXCEPT ![k] = "generate"]
    /\ UNCHANGED <<wtone, disk, gen_count, write_count, parFrame>>

ParGenerate(k) ==
    /\ wpc[k] = "generate"
    /\ wtone' = [wtone EXCEPT ![k] =
                    ToneBuffer(TONES[k].frequency, DURATION, SAMPLE_RATE,
                               FADE_DURATION)]
    /\ gen_count' = Bump(gen_count, k)
    /\ wpc' = [wpc EXCEPT ![k] = "write"]
    /\ UNCHANGED <<disk, stdout, write_count, parFrame>>

ParWrite(k) ==
    /\ wpc[k] = "write"
    /\ disk' = [disk EXCEPT ![OutputPath(TONES[k].filename)] =
                    WavFile(SAMPLE_RATE, wtone[k])]
    /\ write_count' = Bump(write_count, k)
    /\ wpc' = [wpc EXCEPT ![k] = "size"]
    /\ UNCHANGED <<wtone, stdout, gen_count, parFrame>>

ParSize(k) ==
    /\ wpc[k] = "size"
    /\ stdout' = Append(stdout,
           Say("size", disk[OutputPath(TONES[k].filename)].size))
    /\ wpc' = [wpc EXCEPT ![k] = "done"]
    /\ UNCHANGED <<wtone, disk, gen_count, write_count, parFrame>>

ParNext ==
    \E k \in Entries :
        \/ ParHeader(k)
        \/ ParGenerate(k)
        \/ ParWrite(k)
        \/ ParSize(k)

\* The files main() leaves when it runs the entries in order from entry i
\* on, starting with the files d.
RECURSIVE SequentialRun(_, _)
SequentialRun(i, d) ==
    IF i > Len(TONES) THEN d
    ELSE SequentialRun(i + 1,
            [d EXCEPT ![OutputPath(TONES[i].filename)] =
                WavFile(SAMPLE_RATE,
                        ToneBuffer(TONES[i].frequency, DURATION, SAMPLE_RATE,
                                   FADE_DURATION))])

---------------------------------------------------------------------------
(* POST /upload-data: upload_health_data *)

JsonSuffix == <<".", "j", "s", "o", "n">>
CsvSuffix == <<".", "c", "s", "v">>

UploadNames ==
    { <<"d">> \o JsonSuffix,
      <<"d">> \o CsvSuffix,
      <<"d", ".", "t", "x", "t">>,
      <<"j", "s", "o", "n">>,
      <<"d", ".", "J", "S", "O", "N">>,
      <<"d">> \o CsvSuffix \o <<".", "b", "a", "k">> }

\* str.endswith
EndsWith(s, suffix) ==
    /\ Len(s) >= Len(suffix)
    /\ SubSeq(s, Len(s) - Len(suffix) + 1, Len(s)) = suffix

NoExc == [type |-> "none"]

UnsupportedDetail == "Unsupported file type. Use JSON or CSV."

\* HTTPException(status_code=..., detail=...)
HTTPException(code, text) ==
    [type |-> "HTTPException", status_code |-> code, detail |-> text]

Error(type, text) == [type |-> type, detail |-> text]

UploadInit ==
    /\ upc = "idle"
    /\ filename = <<>>
    /\ content = "none"
    /\ client_ok \in BOOLEAN
    /\ provider = "ok"
    /\ data = "none"
    /\ uexc = NoExc
    /\ status_code = 0
    /\ detail = <<>>
    /\ analyze_calls = 0
    /\ suggest_calls = 0
    /\ requests = 0

notUpload == <<toneVars, batchVars, parVars>>

\* A request arrives: its file, and whether the provider will answer.
Receive ==
    /\ upc \in {"idle", "responded"}
    /\ requests < MaxRequests
    /\ requests' = requests + 1
    /\ filename' \in UploadNames
    /\ content' \in {"ok", "unreadable", "malformed"}
    /\ provider' \in {"ok", "analysis-fails", "suggestions-fail"}
    /\ data' = "none"
    /\ uexc' = NoExc
    /\ status_code' = 0
    /\ detail' = <<>>
    /\ analyze_calls' = 0
    /\ suggest_calls' = 0
    /\ upc' = "read"
    /\ UNCHANGED <<client_ok, notUpload>>

\* content = await file.read()
ReadFile ==
    /\ upc = "read"
    /\ content # "unreadable"
    /\ upc' = "parse"
    /\ UNCHANGED <<filename, content, client_ok, provider, data, uexc,
                   status_code, detail, analyze_calls, suggest_calls,
                   requests, notUpload>>

ReadFileRaises ==
    /\ upc = "read"
    /\ content = "unreadable"
    /\ uexc' = Error("OSError", "read failed")
    /\ upc' = "except"
    /\ UNCHANGED <<filename, content, client_ok, provider, data,
                   status_code, detail, analyze_calls, suggest_calls,
                   requests, notUpload>>

\* if file.filename.endswith('.json'): data = json.loads(...)
ParseJson ==
    /\ upc = "parse"
    /\ EndsWith(filename, JsonSuffix)
    /\ content = "ok"
    /\ data' = "dict"
    /\ upc' = "analyze"
    /\ UNCHANGED <<filename, content, client_ok, provider, uexc,
                   status_code, detail, analyze_calls, suggest_calls,
                   requests, notUpload>>

ParseJsonRaises ==
    /\ upc = "parse"
    /\ EndsWith(filename, JsonSuffix)
    /\ content = "malformed"
    /\ uexc' = Error("ValueError", "json")
    /\ upc' = "except"
    /\ UNCHANGED <<filename, content, client_ok, provider, data,
                   status_code, detail, analyze_calls, suggest_calls,
                   requests, notUpload>>

\* elif file.filename.endswith('.csv'): data = list(csv.DictReader(...))
ParseCsv ==
    /\ upc = "parse"
    /\ ~EndsWith(filename, JsonSuffix)
    /\ EndsWith(filename, CsvSuffix)
    /\ content = "ok"
    /\ data' = "list"
    /\ upc' = "analyze"
    /\ UNCHANGED <<filename, content, client_ok, provider, uexc,
                   status_code, detail, analyze_calls, suggest_calls,
                   requests, notUpload>>

ParseCsvRaises ==
    /\ upc = "parse"
    /\ ~EndsWith(filename, JsonSuffix)
    /\ EndsWith(filename, CsvSuffix)
    /\ content = "malformed"
    /\ uexc' = Error("UnicodeDecodeError", "utf-8")
    /\ upc' = "except"
    /\ UNCHANGED <<filename, content, client_ok, provider, data,
                   status_code, detail, analyze_calls, suggest_calls,
                   requests, notUpload>>

\* else: raise HTTPException(status_code=400, ...), inside the try: the
\* handler's own except Exception clause is the next to run.
RejectType ==
    /\ upc = "parse"
    /\ ~EndsWith(filename, JsonSuffix)
    /\ ~EndsWith(filename, CsvSuffix)
    /\ uexc' = HTTPException(400, UnsupportedDetail)
    /\ upc' = "except"
    /\ UNCHANGED <<filename, content, client_ok, provider, data,
                   status_code, detail, analyze_calls, suggest_calls,
                   requests, notUpload>>

\* analysis = await ai_client.analyze_health_data(data): without a client
\* the fixed answer, else the provider's.
Analyze ==
    /\ upc = "analyze"
    /\ ~client_ok \/ provider # "analysis-fails"
    /\ analyze_calls' = analyze_calls + 1
    /\ upc' = "suggest"
    /\ UNCHANGED <<filename, content, client_ok, provider, data, uexc,
                   status_code, detail, suggest_calls, requests, notUpload>>

AnalyzeRaises ==
    /\ upc = "analyze"
    /\ client_ok /\ provider = "analysis-fails"
    /\ analyze_calls' = analyze_calls + 1
    /\ uexc' = Error("Exception", "AI analysis failed")
    /\ upc' = "except"
    /\ UNCHANGED <<filename, content, client_ok, provider, data,
                   status_code, detail, suggest_calls, requests, notUpload>>

\* suggestions = await ai_client.generate_chart_suggestions(data)
Suggest ==
    /\ upc = "suggest"
    /\ ~client_ok \/ provider # "suggestions-fail"
    /\ suggest_calls' = suggest_calls + 1
    /\ upc' = "return"
    /\ UNCHANGED <<filename, content, client_ok, provider, data, uexc,
                   status_code, detail, analyze_calls, requests, notUpload>>

SuggestRaises ==
    /\ upc = "suggest"
    /\ client_ok /\ provider = "suggestions-fail"
    /\ suggest_calls' = suggest_calls + 1
    /\ uexc' = Error("Exception", "Chart suggestion generation failed")
    /\ upc' = "except"
    /\ UNCHANGED <<filename, content, client_ok, provider, data,
                   status_code, detail, analyze_calls, requests, notUpload>>

\* return {"filename": ..., "status": "success"}
Return ==
    /\ upc = "return"
    /\ status_code' = 200
    /\ detail' = <<"success">>
    /\ upc' = "responded"
    /\ UNCHANGED <<filename, content, client_ok, provider, data, uexc,
                   analyze_calls, suggest_calls, requests, notUpload>>

\* except Exception as e:
\*     raise HTTPException(status_code=500, detail=f"File processing failed: {str(e)}")
UploadExcept ==
    /\ upc = "except"
    /\ status_code' = 500
    /\ detail' = <<"File processing failed: ", uexc>>
    /\ upc' = "responded"
    /\ UNCHANGED <<filename, content, client_ok, provider, data, uexc,
                   analyze_calls, suggest_calls, requests, notUpload>>

UploadNext ==
    \/ Receive
    \/ ReadFile
    \/ ReadFileRaises
    \/ ParseJson
    \/ ParseJsonRaises
    \/ ParseCsv
    \/ ParseCsvRaises
    \/ RejectType
    \/ Analyze
    \/ AnalyzeRaises
    \/ Suggest
    \/ SuggestRaises
    \/ Return
    \/ UploadExcept

---------------------------------------------------------------------------
(* Specifications *)

ToneIdle ==
    /\ frequency = 1
    /\ duration = 0
    /\ sample_rate = 0
    /\ fade_duration = 0
    /\ tpc = "idle"
    /\ num_samples = 0
    /\ t = <<>>
    /\ audio = <<>>
    /\ fade_samples = 0
    /\ fade_in = <<>>
    /\ fade_out = <<>>
    /\ pcm = <<>>
    /\ texc = "none"

BatchIdle ==
    /\ bpc = "idle"
    /\ numpy_ok = TRUE
    /\ scipy_ok = TRUE
    /\ dir_exists = FALSE
    /\ disk = [n \in FileNames |-> NoFile]
    /\ stdout = <<>>
    /\ idx = 1
    /\ tone = NoTone
    /\ bexc = "none"
    /\ gen_count = [k \in Entries |-> 0]
    /\ write_count = [k \in Entries |-> 0]
    /\ failed_at = 0

ParIdle ==
    /\ wpc = [k \in Entries |-> "idle"]
    /\ wtone = [k \in Entries |-> NoTone]

UploadIdle ==
    /\ upc = "off"
    /\ filename = <<>>
    /\ content = "none"
    /\ client_ok = FALSE
    /\ provider = "ok"
    /\ data = "none"
    /\ uexc = NoExc
    /\ status_code = 0
    /\ detail = <<>>
    /\ analyze_calls = 0
    /\ suggest_calls = 0
    /\ requests = 0

\* generate_tone on every argument tuple of the bounded sets
ToneStart == ToneInit /\ BatchIdle /\ ParIdle /\ UploadIdle

ToneSpec == ToneStart /\ [][ToneNext]_vars

\* python3 generate_tones.py
BatchStart == BatchInit /\ ToneIdle /\ ParIdle /\ UploadIdle

BatchSpec == BatchStart /\ [][BatchNext]_vars

\* the three loop bodies in any order
ParStart == ParInit /\ ToneIdle /\ UploadIdle

ParSpec == ParStart /\ [][ParNext]_vars

\* the backend serving /upload-data
UploadStart == UploadInit /\ ToneIdle /\ BatchIdle /\ ParIdle

UploadSpec == UploadStart /\ [][UploadNext]_vars

Init == ToneStart \/ BatchStart \/ ParStart \/ UploadStart

Next == ToneNext \/ BatchNext \/ ParNext \/ UploadNext

Spec == Init /\ [][Next]_vars

---------------------------------------------------------------------------
(* Properties of generate_tone, under ToneSpec *)

\* N and F of the arguments
NArg == IntProduct(sample_rate, duration)
FArg == IntProduct(sample_rate, fade_duration)

\* A tone spec generate_tone is meant to accept.
Accepted ==
    /\ frequency > 0
    /\ duration > 0
    /\ sample_rate > 0
    /\ fade_duration >= 0
    /\ NArg >= 2 * FArg

Returned == tpc = "done"

\* C1: for every accepted tone spec, every sample of the returned buffer
\* lies in [-32767, 32767] after the fades and the 16-bit conversion.
C1_SamplesInRange ==
    (Returned /\ Accepted) =>
        \A i \in 1..Len(pcm) : pcm[i] >= -32767 /\ pcm[i] <= 32767

\* An accepted, faded tone whose buffer reaches both ends of the range.
C1_Witness ==
    /\ Returned /\ Accepted
    /\ fade_samples > 0
    /\ \E i \in 1..Len(pcm) : pcm[i] = 32767
    /\ \E i \in 1..Len(pcm) : pcm[i] = -32767

\* The ends of the ramps: factor 0 on sample 0 and on sample N-1, both
\* samples 0 in the buffer.
RampEndsAtZero ==
    /\ REq(fade_in[1], Zero)
    /\ REq(fade_out[fade_samples], Zero)
    /\ pcm[1] = 0
    /\ pcm[num_samples] = 0

\* The fade-out is the fade-in mirrored: sample N-1-j is the sine at that
\* index times the fade-in factor of index j, as sample j is.
RampsMirrored ==
    \A j \in 0..(fade_samples - 1) :
        /\ REq(fade_out[fade_samples - j], fade_in[j + 1])
        /\ audio[j + 1] = RMul(SineOf(frequency, t[j + 1]), fade_in[j + 1])
        /\ audio[num_samples - j] =
               RMul(SineOf(frequency, t[num_samples - j]), fade_in[j + 1])

\* C2 as stated: for every accepted spec with F > 0 (F = 1 included) the
\* first and last samples are multiplied by 0 and the fade-out mirrors the
\* fade-in.
C2_FadeToZeroAnyF ==
    (Returned /\ Accepted /\ fade_samples > 0) =>
        (RampEndsAtZero /\ RampsMirrored)

\* C2 amended: for F >= 2 the first and last samples are multiplied by 0
\* and the fade-out mirrors the fade-in; for F = 1 the fade-in is the
\* single factor 0 and the fade-out the single factor 1, so the first
\* sample is 0 and the last sample keeps its unfaded value.
C2_FadeToZero ==
    /\ (Returned /\ Accepted /\ fade_samples > 1) =>
           (RampEndsAtZero /\ RampsMirrored)
    /\ (Returned /\ Accepted /\ fade_samples = 1) =>
           /\ fade_in = <<Zero>>
           /\ fade_out = <<One>>
           /\ pcm[1] = 0
           /\ pcm[num_samples] =
                  Quantize(SineOf(frequency, t[num_samples]))

\* A tone with a ramp of several points whose last sample the fade-out
\* silences, and room between the two ramps.
C2_Witness ==
    /\ Returned /\ Accepted
    /\ fade_samples > 1
    /\ num_samples > 2 * fade_samples
    /\ SineOf(frequency, t[num_samples])[1] # 0
    /\ pcm[num_samples] = 0

\* C3: generate_tone returns no sample buffer when sampleRateHz <= 0,
\* durationSeconds <= 0 or N < 2F: the call fails instead.
C3_InvalidSpecRejected ==
    (sample_rate <= 0 \/ duration <= 0 \/ NArg < 2 * FArg) => ~Returned

\* |x| for the comparison of a sample with the amplitude n/d times 32767
Scaled(a) == a[1] * 32767

\* C4 as stated: every sample is the integer nearest to its faded
\* amplitude times 32767.
C4_RoundsToNearest ==
    Returned =>
        \A i \in 1..Len(pcm) :
            2 * Abs(pcm[i] * audio[i][2] - Scaled(audio[i])) <= audio[i][2]

\* C4 amended: every sample is its faded amplitude times 32767 with the
\* fraction dropped, towards zero for positive and negative amplitudes:
\* |sample| <= |a x 32767| < |sample| + 1, and the sample has a's sign.
C4_TruncatesTowardsZero ==
    Returned =>
        \A i \in 1..Len(pcm) :
            /\ Abs(pcm[i]) * audio[i][2] <= Abs(Scaled(audio[i]))
            /\ Abs(Scaled(audio[i])) < (Abs(pcm[i]) + 1) * audio[i][2]
            /\ pcm[i] * audio[i][1] >= 0

\* A buffer with a negative amplitude whose product with 32767 has a
\* fraction above one half.
C4_Witness ==
    /\ Returned
    /\ \E i \in 1..Len(pcm) :
           /\ audio[i][1] < 0
           /\ 2 * (Abs(Scaled(audio[i])) % audio[i][2]) > audio[i][2]

\* C9: for every accepted spec the buffer has floor(sampleRate x duration)
\* samples and sample i is computed at time i / sampleRate.
C9_SampleTimes ==
    (Returned /\ Accepted) =>
        /\ Len(pcm) = Floor(sample_rate * duration, MsPerSecond)
        /\ Len(t) = Len(pcm)
        /\ \A i \in 1..Len(t) : REq(t[i], <<i - 1, sample_rate>>)

---------------------------------------------------------------------------
(* Properties of the script, under BatchSpec *)

Terminated == bpc \in {"done", "exited", "crashed"}

\* C5: with numpy or scipy missing, the script prints its
\* missing-dependency message, not the generic error nor an unhandled
\* traceback, and stops before the directory or any file is written.
C5_MissingDependencyReported ==
    (Terminated /\ ~(numpy_ok /\ scipy_ok)) =>
        /\ Printed("missing-packages")
        /\ ~Printed("unhandled-traceback")
        /\ ~Printed("error")
        /\ \A k \in Entries : write_count[k] = 0
        /\ ~Printed("generating-in")

\* The file the script is to leave for a frequency: 8820 samples at
\* 44100 Hz, 0.2 s, fades of 0.01 s, after a 44-byte header.
ExpectedFile(f) ==
    [kind |-> "wav", rate |-> 44100,
     samples |-> [frequency |-> f, duration |-> 200, sample_rate |-> 44100,
                  fade_duration |-> 10, num_samples |-> 8820,
                  fade_samples |-> 441],
     size |-> 44 + 2 * 8820]

ExpectedFrequency(k) == IF k = 1 THEN 300 ELSE IF k = 2 THEN 500 ELSE 800

ExpectedName(k) ==
    IF k = 1 THEN "tone-low.wav"
    ELSE IF k = 2 THEN "tone-medium.wav" ELSE "tone-high.wav"

\* C6: once generating or writing entry k has raised, no generate or
\* write is started for a later entry, no entry is tried twice, the
\* run is in or past its except clause, which prints the diagnostic and
\* never the banner, and the files of the entries before k are on disk as
\* written.
C6_FailureIsTerminal ==
    failed_at # 0 =>
        /\ bpc \in {"except", "exited"}
        /\ \A j \in Entries :
               /\ gen_count[j] <= 1
               /\ write_count[j] <= 1
               /\ j > failed_at => gen_count[j] = 0 /\ write_count[j] = 0
               /\ j < failed_at =>
                      disk[ExpectedName(j)] =
                          ExpectedFile(ExpectedFrequency(j))
        /\ ~Printed("banner")
        /\ bpc = "exited" => Printed("error")

\* The write of the second entry failed, leaving a cut file, after the
\* first entry was written; the handler has run.
C6_Witness ==
    /\ failed_at = 2
    /\ bpc = "exited"
    /\ bexc = "OSError"
    /\ disk["tone-medium.wav"] = PartialFile
    /\ disk["tone-low.wav"].kind = "wav"

AllWritten ==
    \A k \in Entries :
        /\ write_count[k] = 1
        /\ gen_count[k] = 1
        /\ disk[ExpectedName(k)] = ExpectedFile(ExpectedFrequency(k))

\* C8: a run without failure writes tone-low.wav, tone-medium.wav and
\* tone-high.wav, each once, for 300, 500 and 800 Hz, 0.2 s, 44100 Hz and
\* a fade of 0.01 s, each of 8820 samples and 44 + 2 x 8820 bytes, and no
\* other file; the banner is printed only after all three are written.
C8_BatchWritesThreeFiles ==
    /\ bpc = "done" =>
           /\ AllWritten
           /\ Cardinality({n \in DOMAIN disk : disk[n].kind = "wav"}) = 3
           /\ Printed("banner")
    /\ Printed("banner") => AllWritten

\* The run has ended with the banner, the sizes printed on the way.
C8_Witness ==
    /\ bpc = "done"
    /\ Printed("banner")
    /\ \E i \in 1..Len(stdout) : stdout[i] = Say("size", 17684)
    /\ disk["tone-high.wav"].samples.frequency = 800

---------------------------------------------------------------------------
(* Properties of the loop bodies in any order, under ParSpec *)

AllDone == \A k \in Entries : wpc[k] = "done"

---------------------------------------------------------------------------
(* Properties of POST /upload-data, under UploadSpec *)

Unsupported(name) == ~EndsWith(name, JsonSuffix) /\ ~EndsWith(name, CsvSuffix)

\* C10: a file whose name ends in neither .json nor .csv is answered with
\* status 400 and the detail 'Unsupported file type. Use JSON or CSV.',
\* with no call of analyze_health_data or generate_chart_suggestions, and
\* status 500 answers only a supported file (the upload itself having
\* been read).
C10_UnsupportedTypeIs400 ==
    (upc = "responded" /\ content # "unreadable") =>
        /\ Unsupported(filename) =>
               /\ status_code = 400
               /\ detail = <<UnsupportedDetail>>
               /\ analyze_calls = 0
               /\ suggest_calls = 0
        /\ status_code = 500 => ~Unsupported(filename)

=============================================================================
